---- MODULE Spec2Model ----
(***************************************************************************)
(* Horizon-Network-Common: the shared contract of the Horizon game-server  *)
(* mesh (Horizon region servers, the Atlas proxy, the Maestro              *)
(* orchestrator).                                                          *)
(*                                                                         *)
(* The specifications of this module:                                      *)
(*   SpecHealth  health aggregation, ClusterHealth::new (src/src/health.rs)*)
(*   SpecCalls   the pure functions of src/src/spatial.rs,                 *)
(*               ServerHeartbeat::new and the load factors of health.rs,   *)
(*               called with any arguments                                 *)
(*   Spec        server registry entries and the player-transfer protocol  *)
(*               (src/src/server.rs, player.rs, messages.rs; the transfer  *)
(*               module itself, declared at src/src/lib.rs:36, is          *)
(*               modelled from spec.md section 4.3 and 5)                  *)
(***************************************************************************)
EXTENDS Integers, Sequences, FiniteSets, TLC

VARIABLES
    \* ---- health aggregation (health.rs) ----
    checks,           \* the &[HealthCheck] handed to ClusterHealth::new
    overflow_checks,  \* build profile: TRUE = overflow-checks on (dev), FALSE = release
    cluster,          \* the ClusterHealth last computed, NoCluster, or Panicked
    load,             \* what load_factor() returned for it, or NoLoad
    order_changed,    \* the snapshots were reordered since `cluster` was computed
    \* ---- server registry entries (server.rs) ----
    status,           \* ServerRegistration::status / ServerHeartbeat::status per server
    registration,     \* which registration of the server the entry belongs to
    \* ---- players (player.rs) ----
    conn,             \* PlayerInfo::connection_state per player
    holders,          \* the servers that have the player in custody
    sessions,         \* the servers that hold a live session of the player
    others,           \* per server, the connections of players not followed here
    \* ---- transfer protocol (messages.rs, transfer module) ----
    xfer,             \* the transfer in progress per player
    tokens,           \* every TransferToken issued, by token id
    admitted,         \* per token, how many redemption attempts admitted the player
    reply,            \* the answer to the redemption attempt just made, if any
    report,           \* the latest TransferComplete delivered to the player's source
    \* ---- the crate's pure functions (spatial.rs, ServerHeartbeat::new) ----
    call              \* the last call made: the function, its arguments, what it returned

healthVars == <<checks, overflow_checks, cluster, load, order_changed>>

registryVars == <<status, registration>>

transferVars == <<conn, holders, sessions, others, xfer, tokens, admitted, reply, report>>

vars == <<checks, overflow_checks, cluster, load, order_changed,
          status, registration, conn, holders, sessions, others, xfer, tokens, admitted, reply, report,
          call>>

(***************************************************************************)
(* u32 arithmetic.  A u32 is kept as two 16-bit limbs [hi, lo] so that     *)
(* values up to u32::MAX and their sums stay inside the checker's          *)
(* integers.                                                               *)
(***************************************************************************)
Limb == 65536

U32(hi, lo) == [hi |-> hi, lo |-> lo]

U32Zero == U32(0, 0)

U32Max == U32(Limb - 1, Limb - 1)

\* a small number as a u32
Small(n) == U32(0, n)

\* the mathematical sum of two limb pairs; hi may leave the u32 range
WideAdd(a, b) ==
    LET lo == a.lo + b.lo
    IN  [hi |-> a.hi + b.hi + (lo \div Limb), lo |-> lo % Limb]

Overflows(w) == w.hi >= Limb

Wrap(w) == [hi |-> w.hi % Limb, lo |-> w.lo]

(***************************************************************************)
(* HealthStatus and HealthCheck (health.rs)                                *)
(***************************************************************************)
HealthStatus == {"Healthy", "Degraded", "Unhealthy", "Unknown"}

HealthCheck(id, st, pc, cap) ==
    [server_id |-> id, status |-> st, player_count |-> pc, capacity |-> cap]

NoCluster == [kind |-> "none"]

\* the overflow panic of `total_players += ...` under overflow-checks
Panicked == [kind |-> "panic"]

\* the accumulators of ClusterHealth::new before the loop
FoldInit ==
    [healthy |-> 0, degraded |-> 0, unhealthy |-> 0,
     total_players |-> U32Zero, total_capacity |-> U32Zero, panicked |-> FALSE]

\* `a = b` written for `a += b`: the last snapshot wins
AddAssign_LastWins(acc, field, b, oc) == [acc EXCEPT ![field] = b]

\* `a += b` on u32: panics under overflow-checks, wraps otherwise
AddAssign(acc, field, b, oc) ==
    LET w == WideAdd(acc[field], b)
    IN  IF Overflows(w)
        THEN IF oc THEN [acc EXCEPT !.panicked = TRUE]
                   ELSE [acc EXCEPT ![field] = Wrap(w)]
        ELSE [acc EXCEPT ![field] = w]

\* the match on check.status
CountStatus(acc, st) ==
    CASE st = "Healthy"  -> [acc EXCEPT !.healthy = @ + 1]
      [] st = "Degraded" -> [acc EXCEPT !.degraded = @ + 1]
      [] OTHER           -> [acc EXCEPT !.unhealthy = @ + 1]

\* one iteration of `for check in checks`
FoldStep(acc, check, oc) ==
    IF acc.panicked THEN acc
    ELSE LET a1 == CountStatus(acc, check.status)
             a2 == AddAssign(a1, "total_players", check.player_count, oc)
         IN  IF a2.panicked THEN a2
             ELSE AddAssign(a2, "total_capacity", check.capacity, oc)

RECURSIVE Fold(_, _, _)
Fold(acc, cs, oc) ==
    IF cs = <<>> THEN acc
    ELSE Fold(FoldStep(acc, Head(cs), oc), Tail(cs), oc)

\* the if/else chain deciding the overall status
OverallStatus(healthy, degraded, unhealthy) ==
    IF unhealthy > 0 /\ healthy = 0 THEN "Unhealthy"
    ELSE IF degraded > 0 \/ unhealthy > 0 THEN "Degraded"
    ELSE IF healthy > 0 THEN "Healthy"
    ELSE "Unknown"

ClusterHealthNew(cs, oc) ==
    LET acc == Fold(FoldInit, cs, oc)
    IN  IF acc.panicked THEN Panicked
        ELSE [kind |-> "cluster",
              status |-> OverallStatus(acc.healthy, acc.degraded, acc.unhealthy),
              healthy_servers |-> acc.healthy,
              degraded_servers |-> acc.degraded,
              unhealthy_servers |-> acc.unhealthy,
              total_players |-> acc.total_players,
              total_capacity |-> acc.total_capacity]

(***************************************************************************)
(* f32: the value of `x as f32` for a u32 x, kept as mantissa * 2^exp with *)
(* a 24-bit mantissa (round to nearest, ties to even).                     *)
(***************************************************************************)
RECURSIVE Pow2(_)
Pow2(n) == IF n = 0 THEN 1 ELSE 2 * Pow2(n - 1)

RECURSIVE BitLen(_)
BitLen(n) == IF n = 0 THEN 0 ELSE 1 + BitLen(n \div 2)

MantissaBits == 24

AsF32(u) ==
    IF u.hi < Pow2(MantissaBits - 16)
    THEN [m |-> u.hi * Limb + u.lo, e |-> 0]
    ELSE LET s    == BitLen(u.hi) + 16 - MantissaBits
             q    == u.hi * Pow2(16 - s) + (u.lo \div Pow2(s))
             r    == u.lo % Pow2(s)
             half == Pow2(s - 1)
             up   == r > half \/ (r = half /\ q % 2 = 1)
             q1   == IF up THEN q + 1 ELSE q
         IN  IF q1 = Pow2(MantissaBits)
             THEN [m |-> Pow2(MantissaBits - 1), e |-> s + 1]
             ELSE [m |-> q1, e |-> s]

F32Zero == [num |-> [m |-> 0, e |-> 0], den |-> [m |-> 1, e |-> 0]]

\* ClusterHealth::load_factor: the f32 quotient num / den of the two
\* converted totals, or 0.0 when total_capacity is 0
ClusterLoadFactor(c) ==
    IF c.total_capacity = U32Zero THEN F32Zero
    ELSE [num |-> AsF32(c.total_players), den |-> AsF32(c.total_capacity)]

(***************************************************************************)
(* Health aggregation as a state machine: snapshots arrive                 *)
(* (HorizonMessage::HealthResponse), the proxy may hand them to            *)
(* ClusterHealth::new in any order, and aggregates on demand.              *)
(***************************************************************************)
MaxChecks == 3

ServerIds == {"s1", "s2"}

\* The snapshots that may arrive.  HealthCheck::healthy(id, players, capacity)
\* with the loads of the aggregation test and with u32::MAX; HealthCheck::unhealthy(id, msg),
\* which carries 0 players of 0; and deserialized snapshots of the other statuses.
HealthChecks ==
    { HealthCheck(id, "Healthy", l[1], l[2]) :
        id \in ServerIds,
        l \in { <<Small(50), Small(100)>>, <<Small(30), Small(100)>>, <<U32Max, U32Max>> } }
    \cup { HealthCheck(id, "Unhealthy", l[1], l[2]) :
        id \in ServerIds, l \in { <<U32Zero, U32Zero>>, <<U32Max, Small(100)>> } }
    \cup { HealthCheck(id, "Degraded", Small(50), Small(100)) : id \in ServerIds }
    \cup { HealthCheck(id, "Unknown", U32Zero, U32Zero) : id \in ServerIds }

NoLoad == [kind |-> "none"]

\* no snapshot received yet, in either build profile
HealthStart ==
    /\ checks = <<>>
    /\ overflow_checks \in BOOLEAN
    /\ cluster = NoCluster
    /\ load = NoLoad
    /\ order_changed = FALSE

\* a HealthCheck snapshot is added to the set to aggregate
ReceiveCheck ==
    /\ Len(checks) < MaxChecks
    /\ \E c \in HealthChecks : checks' = Append(checks, c)
    /\ cluster' = NoCluster
    /\ load' = NoLoad
    /\ order_changed' = FALSE
    /\ UNCHANGED <<overflow_checks, registryVars, transferVars, call>>

\* ClusterHealth::new(&checks), then load_factor() on the result
Aggregate ==
    /\ cluster = NoCluster
    /\ cluster' = ClusterHealthNew(checks, overflow_checks)
    /\ load' = IF cluster'.kind = "cluster" THEN ClusterLoadFactor(cluster') ELSE NoLoad
    /\ UNCHANGED <<checks, overflow_checks, order_changed, registryVars, transferVars, call>>

Swap(cs, i) ==
    [k \in 1..Len(cs) |-> IF k = i THEN cs[i + 1] ELSE IF k = i + 1 THEN cs[i] ELSE cs[k]]

\* the same snapshots in another order (the caller's iteration order is free)
Reorder ==
    /\ \E i \in 1..(Len(checks) - 1) :
          /\ checks[i] # checks[i + 1]
          /\ checks' = Swap(checks, i)
    /\ order_changed' = (cluster # NoCluster)
    /\ UNCHANGED <<overflow_checks, cluster, load, registryVars, transferVars, call>>

NextHealth == ReceiveCheck \/ Aggregate \/ Reorder

(***************************************************************************)
(* Health aggregation: properties                                          *)
(***************************************************************************)
CountOf(cs, S) == Cardinality({ i \in 1..Len(cs) : cs[i].status \in S })

\* the status rule as section 4.4 words it
ClaimedStatus(cs) ==
    IF CountOf(cs, {"Unhealthy", "Unknown"}) >= 1 /\ CountOf(cs, {"Healthy"}) = 0
    THEN "Unhealthy"
    ELSE IF CountOf(cs, {"Degraded", "Unhealthy", "Unknown"}) >= 1 THEN "Degraded"
    ELSE IF CountOf(cs, {"Healthy"}) >= 1 THEN "Healthy"
    ELSE "Unknown"

\* the mathematical (unbounded) sum of a u32 field over the snapshots
RECURSIVE SumField(_, _)
SumField(cs, field) ==
    IF cs = <<>> THEN U32Zero ELSE WideAdd(Head(cs)[field], SumField(Tail(cs), field))

\* C8: for every list of HealthChecks, ClusterHealth::new returns the status
\* the rule gives: Unhealthy iff some check is Unhealthy/Unknown and none is
\* Healthy, else Degraded iff some check is Degraded/Unhealthy/Unknown, else
\* Healthy iff some check is Healthy, else Unknown, exactly for the empty list.
C8_StatusRule ==
    cluster # NoCluster =>
        /\ cluster.kind = "cluster"
        /\ cluster.status = ClaimedStatus(checks)
        /\ (cluster.status = "Unknown" <=> checks = <<>>)

\* The status rule on every call that returns (the sums fit in u32, or the
\* build wraps).
StatusRuleWhenReturned ==
    cluster.kind = "cluster" =>
        /\ cluster.status = ClaimedStatus(checks)
        /\ (cluster.status = "Unknown" <=> checks = <<>>)

\* C9: ClusterHealth::new is order-independent: the result computed from the
\* snapshots in one order (status, the three counts, total_players,
\* total_capacity) is the result of the call on any reordering of them.
C9_OrderIndependent ==
    cluster # NoCluster => cluster = ClusterHealthNew(checks, overflow_checks)

\* a result computed from three snapshots of different statuses and loads,
\* which were then handed over in another order
C9_Witness ==
    /\ cluster.kind = "cluster"
    /\ order_changed
    /\ Len(checks) = MaxChecks
    /\ \E i, j \in 1..Len(checks) :
          /\ checks[i].status # checks[j].status
          /\ checks[i].player_count # checks[j].player_count

\* C10: ClusterHealth::new sets total_players to the sum of all player_count
\* values and total_capacity to the sum of all capacity values, and
\* load_factor returns total_players / total_capacity, or 0 when
\* total_capacity is 0.
C10_TotalsAreSums ==
    cluster # NoCluster =>
        /\ cluster.kind = "cluster"
        /\ cluster.total_players = SumField(checks, "player_count")
        /\ cluster.total_capacity = SumField(checks, "capacity")
        /\ load = IF SumField(checks, "capacity") = U32Zero THEN F32Zero
                  ELSE [num |-> AsF32(SumField(checks, "player_count")),
                        den |-> AsF32(SumField(checks, "capacity"))]

\* The totals are the sums whenever both sums fit in a u32.
TotalsWhenNoOverflow ==
    (/\ cluster # NoCluster
     /\ ~Overflows(SumField(checks, "player_count"))
     /\ ~Overflows(SumField(checks, "capacity"))) =>
        /\ cluster.kind = "cluster"
        /\ cluster.total_players = SumField(checks, "player_count")
        /\ cluster.total_capacity = SumField(checks, "capacity")

\* the servers that have a snapshot among cs
ServersOf(cs) == { cs[i].server_id : i \in 1..Len(cs) }

\* C11: the snapshots that an aggregation folds over hold at most one
\* HealthCheck per ServerId, so that no server contributes more than once to
\* the counts: the three counts add up to the number of servers reporting.
C11_OnePerServer ==
    cluster.kind = "cluster" =>
        /\ \A i, j \in 1..Len(checks) : i # j => checks[i].server_id # checks[j].server_id
        /\ cluster.healthy_servers + cluster.degraded_servers + cluster.unhealthy_servers
              = Cardinality(ServersOf(checks))

(***************************************************************************)
(* Integers wider than the checker's: a natural number is the sequence of  *)
(* its base-4096 digits, least significant first, without leading zeros    *)
(* (0 is <<>>); a signed integer is a sign and a magnitude.  i64 values    *)
(* and f64 mantissas are kept this way, so that i64::MAX, 2^53 + 1 and the *)
(* 53-bit mantissa of 0.1 are the numbers the program computes with.       *)
(***************************************************************************)
DigitBits == 12

Radix == 4096

Abs(n) == IF n < 0 THEN -n ELSE n

Max(a, b) == IF a >= b THEN a ELSE b

Min(a, b) == IF a <= b THEN a ELSE b

RECURSIVE Digits(_)
Digits(n) == IF n = 0 THEN <<>> ELSE <<n % Radix>> \o Digits(n \div Radix)

DigitAt(a, i) == IF i >= 1 /\ i <= Len(a) THEN a[i] ELSE 0

RECURSIVE Trim(_)
Trim(a) == IF a = <<>> \/ a[Len(a)] # 0 THEN a ELSE Trim(SubSeq(a, 1, Len(a) - 1))

\* the number of bits of a
NatBitLen(a) == IF a = <<>> THEN 0 ELSE DigitBits * (Len(a) - 1) + BitLen(a[Len(a)])

\* bit i of a, the lowest being bit 1
BitAt(a, i) ==
    IF i < 1 THEN 0
    ELSE (DigitAt(a, ((i - 1) \div DigitBits) + 1) \div Pow2((i - 1) % DigitBits)) % 2

\* one of the n lowest bits of a is set
LowBitsSet(a, n) ==
    \E i \in 1..Len(a) :
        /\ a[i] # 0
        /\ \/ i * DigitBits <= n
           \/ (i - 1) * DigitBits < n /\ a[i] % Pow2(n - (i - 1) * DigitBits) # 0

RECURSIVE AddFrom(_, _, _, _)
AddFrom(a, b, i, carry) ==
    IF i > Max(Len(a), Len(b))
    THEN IF carry = 0 THEN <<>> ELSE <<carry>>
    ELSE LET s == DigitAt(a, i) + DigitAt(b, i) + carry
         IN  <<s % Radix>> \o AddFrom(a, b, i + 1, s \div Radix)

NatAdd(a, b) == AddFrom(a, b, 1, 0)

\* a - b for a >= b
RECURSIVE SubFrom(_, _, _, _)
SubFrom(a, b, i, borrow) ==
    IF i > Len(a) THEN <<>>
    ELSE LET d == DigitAt(a, i) - DigitAt(b, i) - borrow
         IN  <<(d + Radix) % Radix>> \o SubFrom(a, b, i + 1, IF d < 0 THEN 1 ELSE 0)

NatSub(a, b) == Trim(SubFrom(a, b, 1, 0))

RECURSIVE CmpFrom(_, _, _)
CmpFrom(a, b, i) ==
    IF i = 0 THEN 0
    ELSE IF a[i] # b[i] THEN (IF a[i] > b[i] THEN 1 ELSE -1)
    ELSE CmpFrom(a, b, i - 1)

\* -1, 0 or 1 as a < b, a = b, a > b
NatCmp(a, b) ==
    IF Len(a) # Len(b) THEN (IF Len(a) > Len(b) THEN 1 ELSE -1)
    ELSE CmpFrom(a, b, Len(a))

\* a * d for a single digit d
RECURSIVE ScaleFrom(_, _, _, _)
ScaleFrom(a, d, i, carry) ==
    IF i > Len(a)
    THEN IF carry = 0 THEN <<>> ELSE <<carry>>
    ELSE LET s == a[i] * d + carry
         IN  <<s % Radix>> \o ScaleFrom(a, d, i + 1, s \div Radix)

Scale(a, d) == IF d = 0 THEN <<>> ELSE ScaleFrom(a, d, 1, 0)

\* a * Radix^n
ShiftDigits(a, n) == IF a = <<>> \/ n <= 0 THEN a ELSE [i \in 1..n |-> 0] \o a

\* a * 2^n
Shl(a, n) ==
    IF n <= 0 THEN a
    ELSE ShiftDigits(Scale(a, Pow2(n % DigitBits)), n \div DigitBits)

\* a div 2^n
Shr(a, n) ==
    IF n <= 0 THEN a
    ELSE IF n \div DigitBits >= Len(a) THEN <<>>
    ELSE LET rest == SubSeq(a, (n \div DigitBits) + 1, Len(a))
             r    == n % DigitBits
         IN  Trim([i \in 1..Len(rest) |->
                     (rest[i] \div Pow2(r)) + (DigitAt(rest, i + 1) % Pow2(r)) * Pow2(DigitBits - r)])

RECURSIVE MulFrom(_, _, _)
MulFrom(a, b, i) ==
    IF i > Len(b) THEN <<>>
    ELSE NatAdd(ShiftDigits(Scale(a, b[i]), i - 1), MulFrom(a, b, i + 1))

NatMul(a, b) == MulFrom(a, b, 1)

\* The recursions below hand their running state on as a value that is
\* already computed (bound by a set constructor), which keeps a step from
\* re-opening the steps before it.

\* the digit a div b, for a < b * Radix: its bits from the top one down
RECURSIVE DigitFrom(_, _, _, _)
DigitFrom(a, b, bit, d) ==
    IF bit = 0 THEN d
    ELSE CHOOSE res \in
            { DigitFrom(a, b, bit \div 2, d2) :
                d2 \in { IF NatCmp(Scale(b, d + bit), a) <= 0 THEN d + bit ELSE d } } : TRUE

\* one step of long division: digit i of a is brought down to the
\* remainder st.r and the next quotient digit is taken
DivStep(a, b, i, st) ==
    LET r2 == Trim(<<a[i]>> \o st.r)
        d  == DigitFrom(r2, b, Radix \div 2, 0)
    IN  [q |-> <<d>> \o st.q, r |-> NatSub(r2, Scale(b, d))]

RECURSIVE DivFrom(_, _, _, _)
DivFrom(a, b, i, st) ==
    IF i = 0 THEN [q |-> Trim(st.q), r |-> st.r]
    ELSE CHOOSE res \in { DivFrom(a, b, i - 1, st2) : st2 \in { DivStep(a, b, i, st) } } : TRUE

\* long division of a by b # 0, from the top digit of a down: quotient and
\* remainder
NatDivMod(a, b) ==
    CHOOSE res \in
        { DivFrom(ab[1], ab[2], Len(ab[1]), [q |-> <<>>, r |-> <<>>]) : ab \in { <<a, b>> } } : TRUE

\* the number of low zero bits of a # 0
RECURSIVE LowZeros(_)
LowZeros(a) ==
    IF a = <<>> THEN 0
    ELSE IF a[1] = 0 THEN DigitBits + LowZeros(Tail(a))
    ELSE CHOOSE z \in 0..(DigitBits - 1) : a[1] % Pow2(z + 1) = Pow2(z)

\* a signed integer; zero has no sign
Signed(neg, mag) == [neg |-> neg /\ mag # <<>>, mag |-> mag]

\* the i64 of a small integer
I64(n) == Signed(n < 0, Digits(Abs(n)))

IntNeg(a) == Signed(~a.neg, a.mag)

IntAdd(a, b) ==
    IF a.neg = b.neg THEN Signed(a.neg, NatAdd(a.mag, b.mag))
    ELSE IF NatCmp(a.mag, b.mag) >= 0 THEN Signed(a.neg, NatSub(a.mag, b.mag))
    ELSE Signed(b.neg, NatSub(b.mag, a.mag))

IntSub(a, b) == IntAdd(a, IntNeg(b))

\* -1, 0 or 1 as a < b, a = b, a > b
IntCmp(a, b) ==
    IF a.neg # b.neg THEN (IF a.neg THEN -1 ELSE 1)
    ELSE IF a.neg THEN NatCmp(b.mag, a.mag) ELSE NatCmp(a.mag, b.mag)

\* 2^n
NatPow2(n) == Shl(<<1>>, n)

\* i64: the integers of [-2^63, 2^63 - 1]
I64Bits == 64

I64Max == Signed(FALSE, NatSub(NatPow2(I64Bits - 1), <<1>>))

I64Min == Signed(TRUE, NatPow2(I64Bits - 1))

InI64(a) == IntCmp(a, I64Min) >= 0 /\ IntCmp(a, I64Max) <= 0

\* i64 `+`, `-` and abs(): what the release build computes (two's
\* complement wrap), and whether the dev build panics instead
I64Overflows(exact) == ~InI64(exact)

\* two's complement wrap of a result that left the range by less than 2^64
WrapI64(a) ==
    IF IntCmp(a, I64Max) > 0 THEN IntSub(a, Signed(FALSE, NatPow2(I64Bits)))
    ELSE IF IntCmp(a, I64Min) < 0 THEN IntAdd(a, Signed(FALSE, NatPow2(I64Bits)))
    ELSE a

I64Add(a, b) == WrapI64(IntAdd(a, b))

I64Sub(a, b) == WrapI64(IntSub(a, b))

I64Abs(a) == WrapI64(Signed(FALSE, a.mag))

(***************************************************************************)
(* IEEE 754 binary floating point (f64, and f32 for the heartbeat load).   *)
(* A number is sign * m * 2^e with m a natural number, kept with m odd so  *)
(* that equal values are equal records; zero keeps its sign.  Every        *)
(* operation computes the exact result and rounds it once to the format,   *)
(* to nearest, ties to even, with gradual underflow and overflow to        *)
(* infinity.                                                               *)
(***************************************************************************)
\* precision, exponent of the smallest subnormal, and the power of two that
\* is out of range
F64 == [p |-> 53, emin |-> -1074, emax |-> 1024]

F32 == [p |-> 24, emin |-> -149, emax |-> 128]

NaN == [k |-> "nan", neg |-> FALSE, m |-> <<>>, e |-> 0]

Inf(neg) == [k |-> "inf", neg |-> neg, m |-> <<>>, e |-> 0]

Num(neg, m, e) ==
    IF m = <<>> THEN [k |-> "num", neg |-> neg, m |-> <<>>, e |-> 0]
    ELSE LET z == LowZeros(m)
         IN  [k |-> "num", neg |-> neg, m |-> Shr(m, z), e |-> e + z]

Zero == Num(FALSE, <<>>, 0)

IsNum(a) == a.k = "num"

IsZero(a) == a.k = "num" /\ a.m = <<>>

\* the exact value (m + t) * 2^e, with 0 < t < 1 when sticky and t = 0
\* otherwise, rounded to the format
RoundTo(fmt, neg, m, e, sticky) ==
    IF m = <<>> THEN Num(neg, <<>>, 0)
    ELSE LET drop  == Max(Max(NatBitLen(m) - fmt.p, fmt.emin - e), 0)
             kept  == Shr(m, drop)
             guard == drop >= 1 /\ BitAt(m, drop) = 1
             rest  == sticky \/ LowBitsSet(m, drop - 1)
             up    == guard /\ (rest \/ BitAt(kept, 1) = 1)
             m2    == IF up THEN NatAdd(kept, <<1>>) ELSE kept
         IN  IF NatBitLen(m2) + e + drop > fmt.emax THEN Inf(neg) ELSE Num(neg, m2, e + drop)

FNeg(a) == IF a.k = "nan" THEN a ELSE [a EXCEPT !.neg = ~a.neg]

FDiv(fmt, a, b) ==
    IF a.k = "nan" \/ b.k = "nan" THEN NaN
    ELSE IF a.k = "inf" THEN (IF b.k = "inf" THEN NaN ELSE Inf(a.neg # b.neg))
    ELSE IF b.k = "inf" THEN Num(a.neg # b.neg, <<>>, 0)
    ELSE IF b.m = <<>> THEN (IF a.m = <<>> THEN NaN ELSE Inf(a.neg # b.neg))
    ELSE IF a.m = <<>> THEN Num(a.neg # b.neg, <<>>, 0)
    ELSE LET k == Max(0, fmt.p + 2 + NatBitLen(b.m) - NatBitLen(a.m))
             d == NatDivMod(Shl(a.m, k), b.m)
         IN  RoundTo(fmt, a.neg # b.neg, d.q, a.e - b.e - k, d.r # <<>>)

FMul(fmt, a, b) ==
    IF a.k = "nan" \/ b.k = "nan" THEN NaN
    ELSE IF a.k = "inf" \/ b.k = "inf"
         THEN (IF IsZero(a) \/ IsZero(b) THEN NaN ELSE Inf(a.neg # b.neg))
    ELSE RoundTo(fmt, a.neg # b.neg, NatMul(a.m, b.m), a.e + b.e, FALSE)

\* an operand too small to reach the rounding position of the other is
\* replaced by a number of its sign that is as invisible, so that the
\* alignment below stays short
FarBelow == 200

FAdd(fmt, a, b) ==
    IF a.k = "nan" \/ b.k = "nan" THEN NaN
    ELSE IF a.k = "inf" THEN (IF b.k = "inf" /\ a.neg # b.neg THEN NaN ELSE a)
    ELSE IF b.k = "inf" THEN b
    ELSE IF a.m = <<>> THEN (IF b.m = <<>> THEN Num(a.neg /\ b.neg, <<>>, 0) ELSE b)
    ELSE IF b.m = <<>> THEN a
    ELSE LET top == Max(a.e, b.e)
             a1  == IF top - a.e > FarBelow THEN [a EXCEPT !.m = <<1>>, !.e = top - FarBelow] ELSE a
             b1  == IF top - b.e > FarBelow THEN [b EXCEPT !.m = <<1>>, !.e = top - FarBelow] ELSE b
             e   == Min(a1.e, b1.e)
             sum == IntAdd(Signed(a1.neg, Shl(a1.m, a1.e - e)), Signed(b1.neg, Shl(b1.m, b1.e - e)))
         IN  IF sum.mag = <<>> THEN Zero ELSE RoundTo(fmt, sum.neg, sum.mag, e, FALSE)

FSub(fmt, a, b) == FAdd(fmt, a, FNeg(b))

\* the order of two values that are not NaN: -1, 0 or 1; +0 and -0 are equal
FCmp(a, b) ==
    LET sgn(x) == IF IsZero(x) THEN 0 ELSE IF x.neg THEN -1 ELSE 1
        top(x) == NatBitLen(x.m) + x.e
        mags   == \* order of |a| and |b|, both of the same non-zero sign
            IF a.k = "inf" THEN (IF b.k = "inf" THEN 0 ELSE 1)
            ELSE IF b.k = "inf" THEN -1
            ELSE IF top(a) # top(b) THEN (IF top(a) > top(b) THEN 1 ELSE -1)
            ELSE LET e == Min(a.e, b.e)
                 IN  NatCmp(Shl(a.m, a.e - e), Shl(b.m, b.e - e))
    IN  IF sgn(a) # sgn(b) THEN (IF sgn(a) > sgn(b) THEN 1 ELSE -1)
        ELSE IF sgn(a) = 0 THEN 0
        ELSE IF sgn(a) > 0 THEN mags ELSE -mags

\* the comparison operators of f64: false whenever an operand is NaN
FLe(a, b) == a.k # "nan" /\ b.k # "nan" /\ FCmp(a, b) <= 0

FGe(a, b) == FLe(b, a)

FLt(a, b) == a.k # "nan" /\ b.k # "nan" /\ FCmp(a, b) < 0

FGt(a, b) == FLt(b, a)

\* f64::min: the other operand when one is NaN
FMin(a, b) ==
    IF a.k = "nan" THEN b
    ELSE IF b.k = "nan" THEN a
    ELSE IF FCmp(a, b) <= 0 THEN a ELSE b

\* f64::floor
FFloor(a) ==
    IF a.k # "num" \/ a.e >= 0 THEN a
    ELSE LET whole == Shr(a.m, -a.e)
         IN  IF a.neg THEN Num(TRUE, NatAdd(whole, <<1>>), 0) ELSE Num(FALSE, whole, 0)

\* `x as i64`: toward zero, saturating, NaN to 0
F64AsI64(a) ==
    IF a.k = "nan" THEN I64(0)
    ELSE IF a.k = "inf" \/ NatBitLen(a.m) + a.e > I64Bits THEN (IF a.neg THEN I64Min ELSE I64Max)
    ELSE LET v == Signed(a.neg, IF a.e >= 0 THEN Shl(a.m, a.e) ELSE Shr(a.m, -a.e))
         IN  IF IntCmp(v, I64Max) > 0 THEN I64Max
             ELSE IF IntCmp(v, I64Min) < 0 THEN I64Min
             ELSE v

\* `n as f64` for an i64 n
I64AsF64(n) == RoundTo(F64, n.neg, n.mag, 0, FALSE)

\* the f64 of a small integer
Whole(n) == Num(n < 0, Digits(Abs(n)), 0)

(***************************************************************************)
(* Region grid (spatial.rs)                                                *)
(***************************************************************************)
\* RegionCoordinate::new: three i64
RegionCoordinate(x, y, z) == [x |-> x, y |-> y, z |-> z]

\* the region coordinate of three small integers
Region(x, y, z) == RegionCoordinate(I64(x), I64(y), I64(z))

\* RegionCoordinate::center()
CenterRegion == Region(0, 0, 0)

\* manhattan_distance, as the release build computes it
ManhattanDistance(a, b) ==
    I64Add(I64Add(I64Abs(I64Sub(a.x, b.x)), I64Abs(I64Sub(a.y, b.y))), I64Abs(I64Sub(a.z, b.z)))

\* adjacent_regions, as the release build computes it
AdjacentRegions(r) ==
    << RegionCoordinate(I64Add(r.x, I64(1)), r.y, r.z), RegionCoordinate(I64Sub(r.x, I64(1)), r.y, r.z),
       RegionCoordinate(r.x, I64Add(r.y, I64(1)), r.z), RegionCoordinate(r.x, I64Sub(r.y, I64(1)), r.z),
       RegionCoordinate(r.x, r.y, I64Add(r.z, I64(1))), RegionCoordinate(r.x, r.y, I64Sub(r.z, I64(1))) >>

\* one of the six additions of adjacent_regions leaves i64
AdjacentRegionsOverflows(r) ==
    \E c \in {r.x, r.y, r.z} :
        I64Overflows(IntAdd(c, I64(1))) \/ I64Overflows(IntSub(c, I64(1)))

Range(f) == { f[i] : i \in DOMAIN f }

(***************************************************************************)
(* World coordinates and region bounds (spatial.rs)                        *)
(***************************************************************************)
\* WorldCoordinate::new: three f64
WorldCoordinate(x, y, z) == [x |-> x, y |-> y, z |-> z]

\* WorldCoordinate::zero()
WorldZero == WorldCoordinate(Zero, Zero, Zero)

\* RegionCoordinate::to_world_center: each index as f64, times region_size
ToWorldCenter(r, region_size) ==
    WorldCoordinate(FMul(F64, I64AsF64(r.x), region_size),
                    FMul(F64, I64AsF64(r.y), region_size),
                    FMul(F64, I64AsF64(r.z), region_size))

\* RegionCoordinate::from_world_coordinate: (coord / region_size).floor() as i64
FromWorldCoordinate(coord, region_size) ==
    RegionCoordinate(F64AsI64(FFloor(FDiv(F64, coord.x, region_size))),
                     F64AsI64(FFloor(FDiv(F64, coord.y, region_size))),
                     F64AsI64(FFloor(FDiv(F64, coord.z, region_size))))

\* RegionBounds::new: the six values are stored as given
RegionBounds(min_x, max_x, min_y, max_y, min_z, max_z) ==
    [min_x |-> min_x, max_x |-> max_x, min_y |-> min_y, max_y |-> max_y,
     min_z |-> min_z, max_z |-> max_z]

\* RegionBounds::default()
RegionBoundsDefault ==
    RegionBounds(Whole(-1000), Whole(1000), Whole(-1000), Whole(1000), Whole(-1000), Whole(1000))

\* RegionBounds::from_center
FromCenter(center, half_extent) ==
    RegionBounds(FSub(F64, center.x, half_extent), FAdd(F64, center.x, half_extent),
                 FSub(F64, center.y, half_extent), FAdd(F64, center.y, half_extent),
                 FSub(F64, center.z, half_extent), FAdd(F64, center.z, half_extent))

\* RegionBounds::contains
Contains(b, coord) ==
    /\ FGe(coord.x, b.min_x) /\ FLe(coord.x, b.max_x)
    /\ FGe(coord.y, b.min_y) /\ FLe(coord.y, b.max_y)
    /\ FGe(coord.z, b.min_z) /\ FLe(coord.z, b.max_z)

\* RegionBounds::distance_to_boundary
DistanceToBoundary(b, coord) ==
    LET dx == FMin(FSub(F64, coord.x, b.min_x), FSub(F64, b.max_x, coord.x))
        dy == FMin(FSub(F64, coord.y, b.min_y), FSub(F64, b.max_y, coord.y))
        dz == FMin(FSub(F64, coord.z, b.min_z), FSub(F64, b.max_z, coord.z))
    IN  FMin(FMin(dx, dy), dz)

\* overlaps with touching bounds left out
Overlaps_Strict(a, b) ==
    /\ FLt(a.min_x, b.max_x) /\ FGt(a.max_x, b.min_x)
    /\ FLt(a.min_y, b.max_y) /\ FGt(a.max_y, b.min_y)
    /\ FLt(a.min_z, b.max_z) /\ FGt(a.max_z, b.min_z)

\* RegionBounds::overlaps
Overlaps(a, b) ==
    /\ FLe(a.min_x, b.max_x) /\ FGe(a.max_x, b.min_x)
    /\ FLe(a.min_y, b.max_y) /\ FGe(a.max_y, b.min_y)
    /\ FLe(a.min_z, b.max_z) /\ FGe(a.max_z, b.min_z)

\* the bounds of region r as section 4.1 takes them: the cube of side
\* region_size around to_world_center
RegionCube(r, region_size) ==
    FromCenter(ToWorldCenter(r, region_size), FDiv(F64, region_size, Whole(2)))

(***************************************************************************)
(* Server registry entries (server.rs)                                     *)
(***************************************************************************)
ServerStatus == {"Starting", "Running", "Draining", "Stopped", "Error"}

Servers == {"s1", "s2"}

NoServer == "none"

\* ServerInfo::region_coord and ServerInfo::capacity of the registered servers
RegionOf == [s \in Servers |-> IF s = "s1" THEN CenterRegion ELSE Region(1, 0, 0)]

CapacityOf == [s \in Servers |-> 1]

\* `n as f32` for a u32 n
U32AsF32(u) == Num(FALSE, Digits(AsF32(u).m), AsF32(u).e)

\* ServerHeartbeat::new without its capacity test
ServerHeartbeatNew_Unguarded(server_id, st, current_connections, capacity) ==
    [server_id |-> server_id, status |-> st, current_connections |-> current_connections,
     load |-> FDiv(F32, U32AsF32(current_connections), U32AsF32(capacity))]

\* ServerHeartbeat::new: load is the f32 quotient when capacity > 0, else 0.0
ServerHeartbeatNew(server_id, st, current_connections, capacity) ==
    [server_id |-> server_id, status |-> st, current_connections |-> current_connections,
     load |-> IF capacity # U32Zero
              THEN FDiv(F32, U32AsF32(current_connections), U32AsF32(capacity))
              ELSE Zero]

\* ServerRegistration::new: every entry starts as Starting
RegistryStart ==
    /\ status = [s \in Servers |-> "Starting"]
    /\ registration = [s \in Servers |-> 1]

(***************************************************************************)
(* Players (player.rs)                                                     *)
(***************************************************************************)
ConnectionState == {"Connecting", "Connected", "Transferring", "Disconnecting", "Disconnected"}

Players == {"p1"}

\* a player id that names no player of a pending transfer
PlayerIds == Players \cup {"p2"}

\* ServerHeartbeat::current_connections: the sessions a server holds
Connections(s) == others[s] + Cardinality({ p \in Players : s \in sessions[p] })

IsConnected(p) == conn[p] \in {"Connected", "Transferring"}

(***************************************************************************)
(* Transfer protocol (spec.md 4.3 and 5; messages of messages.rs)          *)
(*                                                                         *)
(* Custody is authority over the player's state: the source keeps it while *)
(* the transfer is in flight, the atomic redemption of the token moves it  *)
(* to the destination, and what the source still holds between redemption  *)
(* and step (5) is a session awaiting release.                             *)
(***************************************************************************)
MaxTokens == 1

\* a token's lifetime in clock ticks: expires_at = issued_at + TokenTTL
TokenTTL == 1

TokenIds == 1..MaxTokens

NoToken == [state |-> "none", player |-> "none", dest |-> NoServer, age |-> 0]

\* TransferToken: player id, destination ServerId, issuance time and expiry.
\* The wall clock is kept relative to the token: age is now - issued_at, which
\* is all that a comparison of now with expires_at reads; it is counted up to
\* TokenTTL + 1, past which nothing distinguishes two clock values.  state is
\* the validity flag the token store keeps for the token.
TransferToken(p, d) == [state |-> "valid", player |-> p, dest |-> d, age |-> 0]

NoTransfer == [phase |-> "idle", source |-> NoServer, target |-> CenterRegion, token |-> 0]

InFlight == {"requested", "issued", "forwarded"}

TransferErrors == {"TargetUnavailable", "TokenExpired", "DestinationRejected", "Cancelled"}

NoReply == [token |-> 0, by |-> NoServer, player |-> "none", outcome |-> "none"]

TransferStart ==
    /\ conn = [p \in Players |-> "Connecting"]
    /\ holders = [p \in Players |-> {}]
    /\ sessions = [p \in Players |-> {}]
    /\ others = [s \in Servers |-> 0]
    /\ xfer = [p \in Players |-> NoTransfer]
    /\ tokens = [t \in TokenIds |-> NoToken]
    /\ admitted = [t \in TokenIds |-> 0]
    /\ reply = NoReply
    /\ report = [p \in Players |-> "none"]

\* the server that owns a region coordinate, if any
Owner(coord) ==
    IF \E s \in Servers : RegionOf[s] = coord
    THEN CHOOSE s \in Servers : RegionOf[s] = coord
    ELSE NoServer

\* a server accepts new players: Running, and connections below capacity
AcceptsPlayers(s) == status[s] = "Running" /\ Connections(s) < CapacityOf[s]

\* issuance that looks at capacity only, whatever the server's status
Eligible_IgnoresStatus(d) == d # NoServer /\ Connections(d) < CapacityOf[d]

\* step (2): the proxy may issue a token naming d
Eligible(d) == d # NoServer /\ AcceptsPlayers(d)

\* now > expires_at
Expired(tok) == tok.age > TokenTTL

\* a check that is not followed by the invalidation it belongs to: a used
\* token passes again
Validate_UsedPasses(t, s, p) ==
    LET tok == tokens[t]
    IN  IF tok.dest # s \/ tok.player # p THEN "InvalidToken"
        ELSE IF tok.state = "expired" \/ Expired(tok) THEN "TokenExpired"
        ELSE IF tok.state = "revoked" THEN "InvalidToken"
        ELSE IF ~AcceptsPlayers(s) THEN "DestinationRejected"
        ELSE "Admitted"

\* expiry left to the timer: only a token the poll has marked is refused
Validate_TrustsPoll(t, s, p) ==
    LET tok == tokens[t]
    IN  IF tok.state = "used" THEN "TokenAlreadyUsed"
        ELSE IF tok.dest # s \/ tok.player # p THEN "InvalidToken"
        ELSE IF tok.state = "expired" THEN "TokenExpired"
        ELSE IF tok.state # "valid" THEN "InvalidToken"
        ELSE IF ~AcceptsPlayers(s) THEN "DestinationRejected"
        ELSE "Admitted"

\* the destination named by the token is not compared with the redeemer
Validate_AnyServer(t, s, p) ==
    LET tok == tokens[t]
    IN  IF tok.state = "used" THEN "TokenAlreadyUsed"
        ELSE IF tok.player # p THEN "InvalidToken"
        ELSE IF tok.state = "expired" \/ Expired(tok) THEN "TokenExpired"
        ELSE IF tok.state # "valid" THEN "InvalidToken"
        ELSE IF ~AcceptsPlayers(s) THEN "DestinationRejected"
        ELSE "Admitted"

\* step (4): what a redemption attempt by server s for player p with token
\* id t is answered
Validate(t, s, p) ==
    LET tok == tokens[t]
    IN  IF tok.state = "used" THEN "TokenAlreadyUsed"
        ELSE IF tok.dest # s \/ tok.player # p THEN "InvalidToken"
        ELSE IF tok.state = "expired" \/ Expired(tok) THEN "TokenExpired"
        ELSE IF tok.state # "valid" THEN "InvalidToken"
        ELSE IF ~AcceptsPlayers(s) THEN "DestinationRejected"
        ELSE "Admitted"

MaxRegistrations == 3

\* ServerRegistration::new(server): a new registration of server s, whose
\* status is Starting
Register(s) ==
    /\ registration[s] < MaxRegistrations
    /\ registration' = [registration EXCEPT ![s] = @ + 1]
    /\ status' = [status EXCEPT ![s] = "Starting"]
    /\ UNCHANGED <<healthVars, transferVars, call>>

\* ServerHeartbeat::new(id, st, ..): the server reports status st, and the
\* registry entry takes it; no status is refused
Heartbeat(s, st) ==
    /\ st # status[s]
    /\ status' = [status EXCEPT ![s] = st]
    /\ reply' = NoReply
    /\ UNCHANGED <<registration, healthVars, conn, holders, sessions, others, xfer, tokens, admitted, report, call>>

\* HorizonMessage::PlayerConnected: server s admits a new player
Connect(p, s) ==
    /\ conn[p] = "Connecting"
    /\ AcceptsPlayers(s)
    /\ conn' = [conn EXCEPT ![p] = "Connected"]
    /\ holders' = [holders EXCEPT ![p] = {s}]
    /\ sessions' = [sessions EXCEPT ![p] = {s}]
    /\ reply' = NoReply
    /\ UNCHANGED <<others, xfer, tokens, admitted, report, healthVars, registryVars, call>>

\* HorizonMessage::PlayerDisconnected: a player that is not in transfer leaves
Disconnect(p) ==
    /\ conn[p] = "Connected"
    /\ xfer[p].phase = "idle"
    /\ conn' = [conn EXCEPT ![p] = "Disconnected"]
    /\ holders' = [holders EXCEPT ![p] = {}]
    /\ sessions' = [sessions EXCEPT ![p] = {}]
    /\ reply' = NoReply
    /\ UNCHANGED <<others, xfer, tokens, admitted, report, healthVars, registryVars, call>>

\* step (1), HorizonMessage::TransferRequest: the source names the player and
\* the adjacent region it is heading for
RequestTransfer(p, target) ==
    /\ conn[p] = "Connected"
    /\ xfer[p].phase = "idle"
    /\ \E src \in holders[p] :
          /\ target \in Range(AdjacentRegions(RegionOf[src]))
          /\ xfer' = [xfer EXCEPT ![p] =
                [phase |-> "requested", source |-> src, target |-> target, token |-> 0]]
    /\ conn' = [conn EXCEPT ![p] = "Transferring"]
    /\ report' = [report EXCEPT ![p] = "none"]
    /\ reply' = NoReply
    /\ UNCHANGED <<others, holders, sessions, tokens, admitted, healthVars, registryVars, call>>

FreeTokenIds == { t \in TokenIds : tokens[t].state = "none" }

\* step (2), AtlasMessage::InitiateTransfer: the proxy resolves the owner of
\* the target region and issues a token bound to (player, destination, expiry)
IssueToken(p) ==
    /\ xfer[p].phase = "requested"
    /\ Eligible(Owner(xfer[p].target))
    /\ FreeTokenIds # {}
    /\ LET t == CHOOSE t \in FreeTokenIds : \A u \in FreeTokenIds : t <= u
       IN  /\ tokens' = [tokens EXCEPT ![t] = TransferToken(p, Owner(xfer[p].target))]
           /\ xfer' = [xfer EXCEPT ![p].phase = "issued", ![p].token = t]
    /\ reply' = NoReply
    /\ UNCHANGED <<others, conn, holders, sessions, admitted, report, healthVars, registryVars, call>>

\* a failure that disconnects the player instead of handing it back
FailBack_Drops(p, err, tokenState) ==
    /\ tokens' = IF xfer[p].token # 0
                 THEN [tokens EXCEPT ![xfer[p].token].state = tokenState]
                 ELSE tokens
    /\ xfer' = [xfer EXCEPT ![p] = NoTransfer]
    /\ conn' = [conn EXCEPT ![p] = "Disconnected"]
    /\ holders' = [holders EXCEPT ![p] = {}]
    /\ report' = [report EXCEPT ![p] = err]
    /\ UNCHANGED <<sessions, admitted>>

\* a transfer fails back to its source: the token (if any) is invalidated, the
\* failure is reported (TransferComplete { success: false, error }) and the
\* source retains the player
FailBack(p, err, tokenState) ==
    /\ tokens' = IF xfer[p].token # 0
                 THEN [tokens EXCEPT ![xfer[p].token].state = tokenState]
                 ELSE tokens
    /\ xfer' = [xfer EXCEPT ![p] = NoTransfer]
    /\ conn' = [conn EXCEPT ![p] = "Connected"]
    /\ holders' = [holders EXCEPT ![p] = @ \cup {xfer[p].source}]
    /\ report' = [report EXCEPT ![p] = err]
    /\ UNCHANGED <<sessions, admitted>>

\* step (2), refusal: no server owns the target region, or it is not Running,
\* or it is full
RejectRequest(p) ==
    /\ xfer[p].phase = "requested"
    /\ ~Eligible(Owner(xfer[p].target))
    /\ FailBack(p, "TargetUnavailable", "none")
    /\ reply' = NoReply
    /\ UNCHANGED <<others, healthVars, registryVars, call>>

\* step (3), AtlasMessage::AcceptTransfer { token, player_state } reaches the
\* destination
Forward(p) ==
    /\ xfer[p].phase = "issued"
    /\ xfer' = [xfer EXCEPT ![p].phase = "forwarded"]
    /\ reply' = NoReply
    /\ UNCHANGED <<others, conn, holders, sessions, tokens, admitted, report, healthVars, registryVars, call>>

\* step (4): server s presents token t for player p.  One atomic
\* check-and-invalidate; a first delivery, a retry and a presentation by
\* another server are all attempts.
Redeem(s, t, p) ==
    /\ tokens[t].state # "none"
    /\ LET out == Validate(t, s, p)
       IN  /\ reply' = [token |-> t, by |-> s, player |-> p, outcome |-> out]
           /\ IF out = "Admitted"
              THEN /\ tokens' = [tokens EXCEPT ![t].state = "used"]
                   /\ admitted' = [admitted EXCEPT ![t] = IF @ < 2 THEN @ + 1 ELSE @]
                   /\ holders' = [holders EXCEPT ![p] = (@ \ {xfer[p].source}) \cup {s}]
                   /\ sessions' = [sessions EXCEPT ![p] = @ \cup {s}]
                   /\ xfer' = [xfer EXCEPT ![p].phase = "accepted"]
                   /\ UNCHANGED <<conn, report>>
              ELSE IF out \in {"TokenExpired", "DestinationRejected"} /\ p \in Players
                      /\ xfer[p].token = t /\ xfer[p].phase \in InFlight
              THEN FailBack(p, out, IF out = "TokenExpired" THEN "expired" ELSE "revoked")
              ELSE UNCHANGED <<conn, holders, sessions, xfer, tokens, admitted, report>>
    /\ UNCHANGED <<others, healthVars, registryVars, call>>

\* step (4), report: HorizonMessage::TransferAccepted reached the proxy, which
\* tells the source (TransferComplete { success: true })
Complete(p) ==
    /\ xfer[p].phase = "accepted"
    /\ xfer' = [xfer EXCEPT ![p].phase = "completed"]
    /\ report' = [report EXCEPT ![p] = "ok"]
    /\ reply' = NoReply
    /\ UNCHANGED <<others, conn, holders, sessions, tokens, admitted, healthVars, registryVars, call>>

\* step (5): the source releases its session (DisconnectReason::Transfer)
Release(p) ==
    /\ xfer[p].phase = "completed"
    /\ sessions' = [sessions EXCEPT ![p] = @ \ {xfer[p].source}]
    /\ conn' = [conn EXCEPT ![p] = "Connected"]
    /\ xfer' = [xfer EXCEPT ![p] = NoTransfer]
    /\ reply' = NoReply
    /\ UNCHANGED <<others, holders, tokens, admitted, report, healthVars, registryVars, call>>

\* a cancellation that is also taken after the token was redeemed
Cancel_AfterRedemption(p) ==
    /\ xfer[p].phase \in InFlight \cup {"accepted"}
    /\ FailBack(p, "Cancelled", "revoked")
    /\ reply' = NoReply
    /\ UNCHANGED <<others, healthVars, registryVars, call>>

\* AtlasMessage::CancelTransfer: a transfer whose token was not redeemed is
\* cancelled
Cancel(p) ==
    /\ xfer[p].phase \in InFlight
    /\ FailBack(p, "Cancelled", "revoked")
    /\ reply' = NoReply
    /\ UNCHANGED <<others, healthVars, registryVars, call>>

\* the expiry timer or poll notices that the deadline of a pending token passed
ExpirePoll(p) ==
    /\ xfer[p].phase \in {"issued", "forwarded"}
    /\ Expired(tokens[xfer[p].token])
    /\ FailBack(p, "TokenExpired", "expired")
    /\ reply' = NoReply
    /\ UNCHANGED <<others, healthVars, registryVars, call>>

\* the wall clock advances by one tick: every issued token grows older
Tick ==
    /\ \E t \in TokenIds : tokens[t].state # "none" /\ tokens[t].age <= TokenTTL
    /\ tokens' = [t \in TokenIds |->
          IF tokens[t].state # "none" /\ tokens[t].age <= TokenTTL
          THEN [tokens[t] EXCEPT !.age = @ + 1]
          ELSE tokens[t]]
    /\ reply' = NoReply
    /\ UNCHANGED <<others, conn, holders, sessions, xfer, admitted, report, healthVars, registryVars, call>>

\* HorizonMessage::PlayerConnected / PlayerDisconnected for a player that is
\* not followed individually: it takes or frees a slot of server s
LocalConnect(s) ==
    /\ AcceptsPlayers(s)
    /\ others' = [others EXCEPT ![s] = @ + 1]
    /\ reply' = NoReply
    /\ UNCHANGED <<conn, holders, sessions, xfer, tokens, admitted, report, healthVars, registryVars, call>>

LocalDisconnect(s) ==
    /\ others[s] > 0
    /\ others' = [others EXCEPT ![s] = @ - 1]
    /\ reply' = NoReply
    /\ UNCHANGED <<conn, holders, sessions, xfer, tokens, admitted, report, healthVars, registryVars, call>>

(***************************************************************************)
(* The crate's pure functions as a state machine: any caller may call any  *)
(* of them with any arguments, and may hand the value one call returned to *)
(* the next.  `call` keeps the last call: the function, its arguments and  *)
(* what it returned, until the caller drops it.  The arguments are drawn   *)
(* from the values below: the ones of the crate's tests, the ends of the   *)
(* i64 and u32 ranges, and f64 values whose products and quotients are not *)
(* exact.                                                                  *)
(***************************************************************************)
NoCall == [fn |-> "none"]

\* 0.1
Tenth == Num(FALSE, <<3277, 3276, 3276, 3276, 12>>, -55)

\* 0.7
SevenTenths == Num(FALSE, <<819, 819, 819, 819, 11>>, -52)

\* 1.0000000000000002, the f64 after 1.0
OnePlusUlp == Num(FALSE, <<1, 0, 0, 0, 16>>, -52)

\* 3.0000000000000004, the f64 after 3.0
ThreePlusUlp == Num(FALSE, <<1, 0, 0, 0, 24>>, -51)

\* 1e300
Huge == Num(FALSE, <<3431, 1, 3874, 3984, 5>>, 946)

\* -5e-324, the negative f64 nearest to zero
TinyNegative == Num(TRUE, <<1>>, -1074)

\* 2^-53 + 2^-60
SmallHalfExtent == Num(FALSE, <<129>>, -60)

RegionSizes == {Whole(100), Whole(1), Tenth, SevenTenths, OnePlusUlp}

Points ==
    { WorldCoordinate(Whole(150), Whole(50), Whole(-25)),
      WorldZero,
      WorldCoordinate(Whole(-100), Whole(99), Whole(101)),
      WorldCoordinate(ThreePlusUlp, Zero, Zero),
      WorldCoordinate(Huge, Zero, Zero),
      WorldCoordinate(Zero, TinyNegative, Zero) }

\* 2^53 + 1, the first i64 that is not an f64
TwoTo53Plus1 == Signed(FALSE, <<1, 0, 0, 0, 32>>)

Regions ==
    { CenterRegion, Region(1, 0, 0), Region(1, 0, -1), Region(1, 1, 0), Region(1, 1, 1),
      Region(2, 0, 0), Region(3, 0, 0), Region(-3, 0, 0),
      RegionCoordinate(TwoTo53Plus1, I64(0), I64(0)),
      RegionCoordinate(I64Max, I64(0), I64(0)),
      RegionCoordinate(I64(0), I64Min, I64(0)) }

Centers == { WorldZero, WorldCoordinate(Whole(1), Zero, Zero), WorldCoordinate(Whole(150), Whole(50), Whole(-25)) }

HalfExtents == { Whole(100), Zero, Whole(-1), SmallHalfExtent }

\* arguments of RegionBounds::new: in order, and with min_x and max_x swapped
NewArguments ==
    { <<Zero, Whole(10), Zero, Whole(10), Zero, Whole(10)>>,
      <<Whole(10), Zero, Zero, Whole(10), Zero, Whole(10)>>,
      <<Whole(-5), Whole(-5), Zero, Whole(1), Zero, Whole(1)>> }

U32Samples == { U32Zero, Small(1), Small(3), Small(50), Small(100), U32(256, 1), U32Max }

Constructors == {"RegionBounds::new", "RegionBounds::from_center", "RegionBounds::default"}

CallsStart == call = NoCall

\* RegionCoordinate::from_world_coordinate(&coord, region_size)
CallFromWorldCoordinate ==
    /\ call = NoCall
    /\ \E p \in Points, s \in RegionSizes :
          call' = [fn |-> "from_world_coordinate", coord |-> p, region_size |-> s,
                   center_of |-> <<>>, out |-> FromWorldCoordinate(p, s)]
    /\ UNCHANGED <<healthVars, registryVars, transferVars>>

\* r.to_world_center(region_size)
CallToWorldCenter ==
    /\ call = NoCall
    /\ \E r \in Regions, s \in RegionSizes :
          call' = [fn |-> "to_world_center", region |-> r, region_size |-> s,
                   out |-> ToWorldCenter(r, s)]
    /\ UNCHANGED <<healthVars, registryVars, transferVars>>

\* from_world_coordinate on the center that to_world_center just returned,
\* with the same region size; center_of keeps the region the center is of
CallFromWorldCoordinateOfCenter ==
    /\ call.fn = "to_world_center"
    /\ call' = [fn |-> "from_world_coordinate", coord |-> call.out,
                region_size |-> call.region_size, center_of |-> <<call.region>>,
                out |-> FromWorldCoordinate(call.out, call.region_size)]
    /\ UNCHANGED <<healthVars, registryVars, transferVars>>

\* r.adjacent_regions(): the additions panic on overflow in a build with
\* overflow-checks and wrap in one without
CallAdjacentRegions ==
    /\ call = NoCall
    /\ \E r \in Regions :
          call' = [fn |-> "adjacent_regions", region |-> r,
                   out |-> IF overflow_checks /\ AdjacentRegionsOverflows(r)
                           THEN Panicked
                           ELSE [kind |-> "vec", items |-> AdjacentRegions(r)]]
    /\ UNCHANGED <<healthVars, registryVars, transferVars>>

\* RegionBounds::new(min_x, max_x, min_y, max_y, min_z, max_z)
CallNew ==
    /\ call = NoCall
    /\ \E t \in NewArguments :
          call' = [fn |-> "RegionBounds::new",
                   out |-> RegionBounds(t[1], t[2], t[3], t[4], t[5], t[6])]
    /\ UNCHANGED <<healthVars, registryVars, transferVars>>

\* RegionBounds::from_center(center, half_extent)
CallFromCenter ==
    /\ call = NoCall
    /\ \E c \in Centers, h \in HalfExtents :
          call' = [fn |-> "RegionBounds::from_center", center |-> c, half_extent |-> h,
                   out |-> FromCenter(c, h)]
    /\ UNCHANGED <<healthVars, registryVars, transferVars>>

\* RegionBounds::default()
CallDefault ==
    /\ call = NoCall
    /\ call' = [fn |-> "RegionBounds::default", out |-> RegionBoundsDefault]
    /\ UNCHANGED <<healthVars, registryVars, transferVars>>

\* the centers of the six faces of bounds b around the point c
FaceCenters(b, c) ==
    { WorldCoordinate(b.min_x, c.y, c.z), WorldCoordinate(b.max_x, c.y, c.z),
      WorldCoordinate(c.x, b.min_y, c.z), WorldCoordinate(c.x, b.max_y, c.z),
      WorldCoordinate(c.x, c.y, b.min_z), WorldCoordinate(c.x, c.y, b.max_z) }

\* the points a caller asks a just-built bounds about: the center it was
\* built around, its face centers, center + (half_extent + e, 0, 0) for e = 1
\* and e = 5e-324, and points next to and far from it
Probes(built) ==
    LET b == built.out
        c == IF built.fn = "RegionBounds::from_center" THEN built.center
             ELSE WorldCoordinate(b.min_x, b.min_y, b.min_z)
        h == IF built.fn = "RegionBounds::from_center" THEN built.half_extent ELSE Zero
    IN  {c} \cup FaceCenters(b, c)
        \cup { WorldCoordinate(FAdd(F64, c.x, FAdd(F64, h, e)), c.y, c.z) : e \in {Whole(1), FNeg(TinyNegative)} }
        \cup { WorldCoordinate(FAdd(F64, c.x, Whole(1)), FAdd(F64, c.y, Whole(2)), FAdd(F64, c.z, Whole(3))),
               WorldCoordinate(Whole(5000), Zero, Zero) }

\* bounds.contains(&coord) on the bounds just built
CallContains ==
    /\ call.fn \in Constructors
    /\ \E p \in Probes(call) :
          call' = [fn |-> "contains", built |-> call, coord |-> p, out |-> Contains(call.out, p)]
    /\ UNCHANGED <<healthVars, registryVars, transferVars>>

\* bounds.distance_to_boundary(&coord) on the bounds just built
CallDistanceToBoundary ==
    /\ call.fn \in Constructors
    /\ \E p \in Probes(call) :
          call' = [fn |-> "distance_to_boundary", built |-> call, coord |-> p,
                   out |-> DistanceToBoundary(call.out, p)]
    /\ UNCHANGED <<healthVars, registryVars, transferVars>>

\* other bounds to compare a with: two that begin where a ends on x and have
\* its other extents, one a step further away, one displaced on x and y, and a
Others(a) ==
    { RegionBounds(a.max_x, FAdd(F64, a.max_x, w), a.min_y, a.max_y, a.min_z, a.max_z) :
        w \in {Whole(1), Whole(200)} }
    \cup { RegionBounds(FAdd(F64, a.max_x, Whole(1)), FAdd(F64, a.max_x, Whole(2)),
                        a.min_y, a.max_y, a.min_z, a.max_z),
           RegionBounds(a.max_x, FAdd(F64, a.max_x, Whole(1)),
                        a.max_y, FAdd(F64, a.max_y, Whole(1)), a.min_z, a.max_z),
           a }

\* a.overlaps(&b) and b.overlaps(&a), a being the bounds just built
CallOverlaps ==
    /\ call.fn \in Constructors
    /\ \E b \in Others(call.out) :
          call' = [fn |-> "overlaps", cells |-> <<>>, a |-> call.out, b |-> b,
                   out |-> Overlaps(call.out, b), back |-> Overlaps(b, call.out)]
    /\ UNCHANGED <<healthVars, registryVars, transferVars>>

\* points on the plane x = a.max_x: the corners of that face of a, the middles
\* of two of its edges, and one point beside it
FacePoints(a) ==
    { WorldCoordinate(a.max_x, y, z) :
        y \in {a.min_y, a.max_y, FDiv(F64, FAdd(F64, a.min_y, a.max_y), Whole(2))},
        z \in {a.min_z, a.max_z} }
    \cup { WorldCoordinate(a.max_x, FAdd(F64, a.max_y, Whole(1)), a.min_z) }

\* a.contains(&p) and b.contains(&p) for the two bounds just compared
CallContainsOfBoth ==
    /\ call.fn = "overlaps"
    /\ \E p \in FacePoints(call.a) :
          call' = [fn |-> "contains", built |-> call, coord |-> p,
                   out |-> Contains(call.a, p), other |-> Contains(call.b, p)]
    /\ UNCHANGED <<healthVars, registryVars, transferVars>>

\* the point just mapped to a region by from_world_coordinate is looked up in
\* the bounds of that region, for the same region size
CallContainsOfRegion ==
    /\ call.fn = "from_world_coordinate"
    /\ call' = [fn |-> "contains", built |-> call, coord |-> call.coord,
                out |-> Contains(RegionCube(call.out, call.region_size), call.coord)]
    /\ UNCHANGED <<healthVars, registryVars, transferVars>>

\* overlaps on the bounds of two grid cells, for one region size
CallOverlapsOfRegions ==
    /\ call = NoCall
    /\ \E r1 \in {CenterRegion, Region(1, 0, -1)}, r2 \in Regions, s \in {Whole(100), Tenth} :
          LET a == RegionCube(r1, s)
              b == RegionCube(r2, s)
          IN  call' = [fn |-> "overlaps", cells |-> <<r1, r2>>, a |-> a, b |-> b,
                       out |-> Overlaps(a, b), back |-> Overlaps(b, a)]
    /\ UNCHANGED <<healthVars, registryVars, transferVars>>

\* ServerHeartbeat::new(server_id, status, current_connections, capacity)
CallHeartbeatNew ==
    /\ call = NoCall
    /\ \E s \in Servers, st \in ServerStatus, n \in U32Samples, cap \in U32Samples :
          call' = [fn |-> "ServerHeartbeat::new", server_id |-> s, status |-> st,
                   current_connections |-> n, capacity |-> cap,
                   out |-> ServerHeartbeatNew(s, st, n, cap)]
    /\ UNCHANGED <<healthVars, registryVars, transferVars>>

\* HealthCheck::load_factor: the f32 quotient, or 0.0 when capacity is 0
HealthCheckLoadFactor(c) ==
    IF c.capacity = U32Zero THEN Zero
    ELSE FDiv(F32, U32AsF32(c.player_count), U32AsF32(c.capacity))

\* the f32 that ClusterHealth::load_factor returns: the quotient of the two
\* converted totals, divided
ClusterLoadFactorF32(c) ==
    LET q == ClusterLoadFactor(c)
    IN  FDiv(F32, Num(FALSE, Digits(q.num.m), q.num.e), Num(FALSE, Digits(q.den.m), q.den.e))

\* check.load_factor() on a snapshot that arrived, or on
\* HealthCheck::healthy(id, player_count, capacity) for any two u32
CallHealthCheckLoadFactor ==
    /\ call = NoCall
    /\ \E c \in HealthChecks \cup { HealthCheck("s1", "Healthy", n, cap) : n, cap \in U32Samples } :
          call' = [fn |-> "HealthCheck::load_factor", check |-> c, out |-> HealthCheckLoadFactor(c)]
    /\ UNCHANGED <<healthVars, registryVars, transferVars>>

\* the slices of at most two snapshots
HealthCheckLists == {<<>>} \cup { <<c>> : c \in HealthChecks } \cup { <<c, d>> : c, d \in HealthChecks }

\* ClusterHealth::new(&checks)
CallClusterHealthNew ==
    /\ call = NoCall
    /\ \E cs \in HealthCheckLists :
          call' = [fn |-> "ClusterHealth::new", checks |-> cs,
                   out |-> ClusterHealthNew(cs, overflow_checks)]
    /\ UNCHANGED <<healthVars, registryVars, transferVars>>

\* load_factor() on the ClusterHealth just returned
CallClusterLoadFactor ==
    /\ call.fn = "ClusterHealth::new"
    /\ call.out.kind = "cluster"
    /\ call' = [fn |-> "ClusterHealth::load_factor", cluster |-> call.out,
                out |-> ClusterLoadFactorF32(call.out)]
    /\ UNCHANGED <<healthVars, registryVars, transferVars>>

\* the caller drops the value the last call returned
DropResult ==
    /\ call # NoCall
    /\ call' = NoCall
    /\ UNCHANGED <<healthVars, registryVars, transferVars>>

NextCalls ==
    \/ CallFromWorldCoordinate
    \/ CallToWorldCenter
    \/ CallFromWorldCoordinateOfCenter
    \/ CallAdjacentRegions
    \/ CallNew
    \/ CallFromCenter
    \/ CallDefault
    \/ CallContains
    \/ CallDistanceToBoundary
    \/ CallOverlaps
    \/ CallContainsOfBoth
    \/ CallContainsOfRegion
    \/ CallOverlapsOfRegions
    \/ CallHeartbeatNew
    \/ CallHealthCheckLoadFactor
    \/ CallClusterHealthNew
    \/ CallClusterLoadFactor
    \/ DropResult

(***************************************************************************)
(* Specifications                                                          *)
(***************************************************************************)
Init ==
    /\ checks = <<>> /\ overflow_checks = FALSE /\ cluster = NoCluster
    /\ load = NoLoad /\ order_changed = FALSE
    /\ RegistryStart
    /\ TransferStart
    /\ CallsStart

Next ==
    \/ \E s \in Servers, st \in ServerStatus : Heartbeat(s, st)
    \/ \E p \in Players, s \in Servers : Connect(p, s)
    \/ \E p \in Players : Disconnect(p)
    \/ \E s \in Servers : LocalConnect(s)
    \/ \E s \in Servers : LocalDisconnect(s)
    \/ \E p \in Players, r \in Range(AdjacentRegions(CenterRegion)) \cup {CenterRegion} :
          RequestTransfer(p, r)
    \/ \E p \in Players : IssueToken(p)
    \/ \E p \in Players : RejectRequest(p)
    \/ \E p \in Players : Forward(p)
    \/ \E s \in Servers, t \in TokenIds, p \in PlayerIds : Redeem(s, t, p)
    \/ \E p \in Players : Complete(p)
    \/ \E p \in Players : Release(p)
    \/ \E p \in Players : Cancel(p)
    \/ \E p \in Players : ExpirePoll(p)
    \/ Tick

Spec == Init /\ [][Next]_vars

NextRegistry ==
    \/ \E s \in Servers : Register(s)
    \/ \E s \in Servers, st \in ServerStatus : Heartbeat(s, st)

SpecRegistry == Init /\ [][NextRegistry]_vars

InitHealth == HealthStart /\ RegistryStart /\ TransferStart /\ CallsStart

SpecHealth == InitHealth /\ [][NextHealth]_vars

\* the pure functions, in either build profile
InitCalls == HealthStart /\ RegistryStart /\ TransferStart /\ CallsStart

SpecCalls == InitCalls /\ [][NextCalls]_vars

(***************************************************************************)
(* Transfer protocol and registry: properties                              *)
(***************************************************************************)
\* a redemption attempt was just answered
Attempted == reply # NoReply

Redeemable(tok) == tok.state = "valid" /\ ~Expired(tok)

\* C1: over any interleaving of redemption attempts on a token (retries,
\* concurrent attempts), at most one attempt admits the player; every attempt
\* made once the token is used is answered "token already used" and admits
\* nobody.
C1_RedeemedAtMostOnce ==
    [][ /\ \A t \in TokenIds : admitted'[t] <= 1
        /\ (reply' # NoReply /\ tokens[reply'.token].state = "used") =>
              /\ reply'.outcome = "TokenAlreadyUsed"
              /\ admitted' = admitted
              /\ holders' = holders
              /\ sessions' = sessions ]_vars

\* the destination named by a used token presented it again for its player
C1_Witness ==
    /\ Attempted
    /\ tokens[reply.token].state = "used"
    /\ reply.by = tokens[reply.token].dest
    /\ reply.player = tokens[reply.token].player
    /\ reply.outcome = "TokenAlreadyUsed"
    /\ admitted[reply.token] = 1

C3_ExpiredNeverRedeemed ==
    [][ /\ (reply' # NoReply /\ Expired(tokens[reply'.token])) =>
              /\ reply'.outcome # "Admitted"
              /\ admitted' = admitted
              /\ holders' = holders
        /\ \A t \in TokenIds :
              (tokens[t].state # "none" /\ ~Redeemable(tokens[t])) => ~Redeemable(tokens'[t]) ]_vars

\* the named destination presented a token after its expiry, the transfer
\* failed back with TokenExpired
C3_Witness ==
    /\ Attempted
    /\ reply.by = tokens[reply.token].dest
    /\ reply.player = tokens[reply.token].player
    /\ reply.outcome = "TokenExpired"
    /\ Expired(tokens[reply.token])

\* C4: a token admits only at the destination it names and only the player it
\* names; an attempt by another server is rejected and leaves the token as it
\* was, still redeemable by the named server.
C4_OnlyNamedServer ==
    [][ reply' # NoReply =>
          LET tok == tokens[reply'.token]
          IN  /\ reply'.outcome = "Admitted" =>
                    (reply'.by = tok.dest /\ reply'.player = tok.player)
              /\ reply'.by # tok.dest =>
                    /\ reply'.outcome # "Admitted"
                    /\ tokens' = tokens
                    /\ holders' = holders ]_vars

\* another server presented a redeemable token and was refused; the token is
\* still redeemable
C4_Witness ==
    /\ Attempted
    /\ reply.by # tokens[reply.token].dest
    /\ reply.player = tokens[reply.token].player
    /\ reply.outcome = "InvalidToken"
    /\ Redeemable(tokens[reply.token])

\* C5: a token is issued for a destination only when, at issuance time, that
\* server owns the region adjacent to the source that the request names, its
\* status is Running and its connection count is below its capacity.
C5_IssuedOnlyToRunningWithRoom ==
    [][ \A t \in TokenIds :
          (tokens[t].state = "none" /\ tokens'[t].state # "none") =>
             LET d == tokens'[t].dest
                 p == tokens'[t].player
             IN  /\ d \in Servers
                 /\ p \in Players
                 /\ RegionOf[d] = xfer[p].target
                 /\ ManhattanDistance(RegionOf[d], RegionOf[xfer[p].source]) = I64(1)
                 /\ status[d] = "Running"
                 /\ Connections(d) < CapacityOf[d] ]_vars

\* a token was just issued
C5_Witness ==
    \E p \in Players :
        /\ xfer[p].phase = "issued"
        /\ tokens[xfer[p].token].state = "valid"
        /\ tokens[xfer[p].token].age = 0

\* a transfer of p ends without the token having been redeemed
Fails(p) == xfer[p].phase \in InFlight /\ xfer'[p].phase = "idle"

\* C6: whenever a transfer fails (token expiry, destination rejection,
\* cancellation, no eligible target), the failure is reported to the source and
\* the source retains the player; the player is not dropped, and the failure
\* starts no new attempt: no request is pending and no token is issued by it.
C6_FailsBackToSource ==
    [][ \A p \in Players :
          Fails(p) =>
             /\ report'[p] \in TransferErrors
             /\ holders'[p] = {xfer[p].source}
             /\ xfer[p].source \in sessions'[p]
             /\ conn'[p] = "Connected"
             /\ xfer'[p] = NoTransfer
             /\ (xfer[p].token # 0 => ~Redeemable(tokens'[xfer[p].token]))
             /\ \A t \in TokenIds : tokens[t].state = "none" => tokens'[t].state = "none" ]_vars

\* the destination refused the player at redemption and the source kept it
C6_Witness ==
    \E p \in Players :
        /\ report[p] = "DestinationRejected"
        /\ reply.outcome = "DestinationRejected"
        /\ conn[p] = "Connected"
        /\ xfer[p] = NoTransfer
        /\ holders[p] = {"s1"}

\* the status changes section 4.2 allows within one registration
AllowedStatusChange(a, b) ==
    \/ a = "Starting" /\ b = "Running"
    \/ a = "Running" /\ b = "Draining"
    \/ a = "Draining" /\ b = "Stopped"
    \/ a # "Error" /\ b = "Error"

\* C7: a server's status is Starting at registration and, within one
\* registration, changes only Starting -> Running -> Draining -> Stopped or
\* from any status to Error; from Error it does not change again.
C7_Lifecycle ==
    [][ \A s \in Servers :
          /\ registration'[s] # registration[s] => status'[s] = "Starting"
          /\ (registration'[s] = registration[s] /\ status'[s] # status[s]) =>
                AllowedStatusChange(status[s], status'[s]) ]_vars

\* Every registration starts as Starting.
StartsAsStarting ==
    [][ \A s \in Servers : registration'[s] # registration[s] => status'[s] = "Starting" ]_vars

(***************************************************************************)
(* The pure functions: properties.  They are stated in exact arithmetic:   *)
(* a dyadic number sign * m * 2^e of any length stands for itself, and     *)
(* sums and products of such numbers are not rounded.                      *)
(***************************************************************************)
ExactMul(a, b) == Num(a.neg # b.neg, NatMul(a.m, b.m), a.e + b.e)

ExactAdd(a, b) ==
    LET e   == Min(a.e, b.e)
        sum == IntAdd(Signed(a.neg, Shl(a.m, a.e - e)), Signed(b.neg, Shl(b.m, b.e - e)))
    IN  Num(sum.neg, sum.mag, e)

ExactSub(a, b) == ExactAdd(a, [b EXCEPT !.neg = ~b.neg])

ExactAbs(a) == [a EXCEPT !.neg = FALSE]

ExactOfInt(n) == Num(n.neg, n.mag, 0)

ExactOfU32(u) == Num(FALSE, NatAdd(Shl(Digits(u.hi), 16), Digits(u.lo)), 0)

\* the gap between neighbouring numbers of the format at q
Ulp(fmt, q) == Num(FALSE, <<1>>, Max(NatBitLen(q.m) + q.e - fmt.p, fmt.emin))

\* C12: ServerHeartbeat::new copies server_id, status and current_connections,
\* and its load is a finite f32 (never NaN, never infinite): 0.0 when
\* capacity is 0, and when capacity > 0 the quotient connections / capacity,
\* that is, within the rounding of the two conversions and of the division
\* (2 ulp) of the real quotient, exactly 0 only for 0 connections and exactly
\* 1 when connections = capacity.
C12_HeartbeatLoad ==
    call.fn = "ServerHeartbeat::new" =>
        LET hb  == call.out
            n   == ExactOfU32(call.current_connections)
            cap == ExactOfU32(call.capacity)
        IN  /\ hb.server_id = call.server_id
            /\ hb.status = call.status
            /\ hb.current_connections = call.current_connections
            /\ IsNum(hb.load)
            /\ call.capacity = U32Zero => hb.load = Zero
            /\ call.capacity # U32Zero =>
                  /\ ~hb.load.neg
                  /\ IsZero(hb.load) <=> call.current_connections = U32Zero
                  /\ call.current_connections = call.capacity => hb.load = Whole(1)
                  /\ FCmp(ExactAbs(ExactSub(ExactMul(hb.load, cap), n)),
                          ExactMul(ExactMul(Whole(2), Ulp(F32, hb.load)), cap)) <= 0

\* a heartbeat was built for capacity 0 with connections open, and the load is 0.0
C12_Witness ==
    /\ call.fn = "ServerHeartbeat::new"
    /\ call.capacity = U32Zero
    /\ call.current_connections = U32Max
    /\ call.out.load = Zero

\* r * s <= x < (r + 1) * s, in exact arithmetic
InCell(r, x, s) ==
    /\ FCmp(ExactMul(ExactOfInt(r), s), x) <= 0
    /\ FCmp(x, ExactMul(ExactOfInt(IntAdd(r, I64(1))), s)) < 0

\* C13: for every region size s > 0 the cell r that from_world_coordinate
\* returns for a point satisfies r*s <= coordinate < (r+1)*s on every axis.
C13_FloorCell ==
    call.fn = "from_world_coordinate" =>
        /\ InCell(call.out.x, call.coord.x, call.region_size)
        /\ InCell(call.out.y, call.coord.y, call.region_size)
        /\ InCell(call.out.z, call.coord.z, call.region_size)

\* C14: from_world_coordinate(to_world_center(r, s), s) = r for every region
\* r and every region size s > 0.
C14_RoundTrip ==
    (call.fn = "from_world_coordinate" /\ call.center_of # <<>>) =>
        call.out = call.center_of[1]

\* b is a with one step of exactly +1 or -1 on the axis, as integers
StepOnAxis(a, b) == IntSub(b, a) \in {I64(1), I64(-1)}

\* b differs from a on exactly one axis, by one step
OneStepApart(a, b) ==
    \/ StepOnAxis(a.x, b.x) /\ a.y = b.y /\ a.z = b.z
    \/ a.x = b.x /\ StepOnAxis(a.y, b.y) /\ a.z = b.z
    \/ a.x = b.x /\ a.y = b.y /\ StepOnAxis(a.z, b.z)

\* C15: for every region r, adjacent_regions(r) returns 6 pairwise distinct
\* coordinates, each one step of +1 or -1 from r on exactly one axis (so at
\* Manhattan distance 1, never r, never a diagonal neighbour).
C15_SixNeighbours ==
    call.fn = "adjacent_regions" =>
        /\ call.out.kind = "vec"
        /\ Len(call.out.items) = 6
        /\ \A i, j \in 1..Len(call.out.items) : i # j => call.out.items[i] # call.out.items[j]
        /\ \A i \in 1..Len(call.out.items) :
              /\ OneStepApart(call.region, call.out.items[i])
              /\ ManhattanDistance(call.region, call.out.items[i]) = I64(1)

\* C16: for bounds B built by from_center(c, h), for every center c and every
\* half-extent h: B contains c; B does not contain c + (h + e, 0, 0) for any
\* e > 0, that is, no point beyond c.x + h on the line through c along x;
\* and B contains the centers of its six faces.
C16_FromCenterContains ==
    (call.fn = "contains" /\ call.built.fn = "RegionBounds::from_center") =>
        LET c == call.built.center
            h == call.built.half_extent
            p == call.coord
        IN  /\ p = c => call.out
            /\ (p.y = c.y /\ p.z = c.z /\ IsNum(p.x) /\ FCmp(p.x, ExactAdd(c.x, h)) > 0) => ~call.out
            /\ p \in FaceCenters(call.built.out, c) => call.out

\* min < coordinate < max on every axis
StrictlyInside(b, p) ==
    /\ FLt(b.min_x, p.x) /\ FLt(p.x, b.max_x)
    /\ FLt(b.min_y, p.y) /\ FLt(p.y, b.max_y)
    /\ FLt(b.min_z, p.z) /\ FLt(p.z, b.max_z)

\* beyond a face on some axis
Outside(b, p) ==
    \/ FLt(p.x, b.min_x) \/ FGt(p.x, b.max_x)
    \/ FLt(p.y, b.min_y) \/ FGt(p.y, b.max_y)
    \/ FLt(p.z, b.min_z) \/ FGt(p.z, b.max_z)

\* min <= max on every axis
WellFormed(b) == FLe(b.min_x, b.max_x) /\ FLe(b.min_y, b.max_y) /\ FLe(b.min_z, b.max_z)

\* C17: distance_to_boundary is negative for every point strictly inside the
\* bounds and positive for every point outside them.
C17_SignedDistance ==
    (call.fn = "distance_to_boundary" /\ WellFormed(call.built.out)) =>
        /\ StrictlyInside(call.built.out, call.coord) => FLt(call.out, Zero)
        /\ Outside(call.built.out, call.coord) => FGt(call.out, Zero)

\* b begins on x where a ends and has the other extents of a
SharesXFace(a, b) ==
    /\ WellFormed(a) /\ WellFormed(b)
    /\ b.min_x = a.max_x
    /\ b.min_y = a.min_y /\ b.max_y = a.max_y
    /\ b.min_z = a.min_z /\ b.max_z = a.max_z

\* p lies on the face x = a.max_x of a
OnXFace(a, p) ==
    /\ p.x = a.max_x
    /\ FLe(a.min_y, p.y) /\ FLe(p.y, a.max_y)
    /\ FLe(a.min_z, p.z) /\ FLe(p.z, a.max_z)

\* C18: for two bounds (each with min <= max on every axis) that share one
\* face (other.min_x = self.max_x, all other extents equal) overlaps is true
\* in both directions, and every point of the shared face is contained by
\* both.
C18_SharedFace ==
    /\ (call.fn = "overlaps" /\ SharesXFace(call.a, call.b)) => (call.out /\ call.back)
    /\ (call.fn = "contains" /\ call.built.fn = "overlaps"
          /\ SharesXFace(call.built.a, call.built.b) /\ OnXFace(call.built.a, call.coord)) =>
            (call.out /\ call.other)

\* two different bounds sharing a face were compared in both directions and
\* then asked about a corner of that face
C18_Witness ==
    /\ call.fn = "contains" /\ call.built.fn = "overlaps"
    /\ SharesXFace(call.built.a, call.built.b) /\ call.built.a # call.built.b
    /\ call.built.out /\ call.built.back
    /\ call.coord = WorldCoordinate(call.built.a.max_x, call.built.a.max_y, call.built.a.min_z)
    /\ call.out /\ call.other

\* C19: every RegionBounds returned by RegionBounds::new, from_center or
\* default has min <= max on every axis.
C19_MinLeMax ==
    call.fn \in Constructors => WellFormed(call.out)

\* neither region is among the other's adjacent_regions
NotAdjacent(r1, r2) ==
    /\ r2 \notin Range(AdjacentRegions(r1))
    /\ r1 \notin Range(AdjacentRegions(r2))

\* C20: for two distinct regions that are not adjacent (diagonal neighbours
\* included), overlaps reports that the cubes of side s around their centers,
\* from_center(to_world_center(r, s), s / 2), do not overlap.
C20_NonAdjacentDisjoint ==
    (call.fn = "overlaps" /\ call.cells # <<>>) =>
        ((call.cells[1] # call.cells[2] /\ NotAdjacent(call.cells[1], call.cells[2]))
            => (~call.out /\ ~call.back))

\* twice c is r * s + (r + 1) * s: c is the middle of the interval of
\* coordinates of cell r
IsMidpoint(c, r, s) ==
    ExactMul(Whole(2), c) = ExactMul(ExactOfInt(IntAdd(IntAdd(r, r), I64(1))), s)

\* C21: to_world_center(r, s) is on every axis the midpoint of the interval
\* of coordinates that from_world_coordinate maps to r, and the cube
\* from_center(to_world_center(r, s), s / 2) contains every point p with
\* from_world_coordinate(p, s) = r.
C21_CenterOfCell ==
    /\ call.fn = "to_world_center" =>
          /\ IsMidpoint(call.out.x, call.region.x, call.region_size)
          /\ IsMidpoint(call.out.y, call.region.y, call.region_size)
          /\ IsMidpoint(call.out.z, call.region.z, call.region_size)
    /\ (call.fn = "contains" /\ call.built.fn = "from_world_coordinate") => call.out

\* C22: for every list of HealthChecks, ClusterHealth::new returns
\* healthy_servers = the number of Healthy checks, degraded_servers = the
\* number of Degraded checks, unhealthy_servers = the number of Unhealthy plus
\* the number of Unknown checks, and the three add up to the number of checks.
C22_CountsByStatus ==
    cluster # NoCluster =>
        /\ cluster.kind = "cluster"
        /\ cluster.healthy_servers = CountOf(checks, {"Healthy"})
        /\ cluster.degraded_servers = CountOf(checks, {"Degraded"})
        /\ cluster.unhealthy_servers = CountOf(checks, {"Unhealthy"}) + CountOf(checks, {"Unknown"})
        /\ cluster.healthy_servers + cluster.degraded_servers + cluster.unhealthy_servers
              = Len(checks)

\* The counts on every call that returns.
CountsWhenReturned ==
    cluster.kind = "cluster" =>
        /\ cluster.healthy_servers = CountOf(checks, {"Healthy"})
        /\ cluster.degraded_servers = CountOf(checks, {"Degraded"})
        /\ cluster.unhealthy_servers = CountOf(checks, {"Unhealthy"}) + CountOf(checks, {"Unknown"})
        /\ cluster.healthy_servers + cluster.degraded_servers + cluster.unhealthy_servers
              = Len(checks)

\* 0.0 <= x <= 1.0
InUnitInterval(x) == IsNum(x) /\ FLe(Zero, x) /\ FLe(x, Whole(1))

\* C23: every load the crate computes is between 0.0 and 1.0 inclusive: the
\* load of ServerHeartbeat::new, and the results of HealthCheck::load_factor
\* and of ClusterHealth::load_factor.
C23_LoadsInUnitInterval ==
    /\ call.fn = "ServerHeartbeat::new" => InUnitInterval(call.out.load)
    /\ call.fn = "HealthCheck::load_factor" => InUnitInterval(call.out)
    /\ call.fn = "ClusterHealth::load_factor" => InUnitInterval(call.out)

====
